---- MODULE Spec2Model ----
(***************************************************************************)
(* Model of generate.py: concurrent phrase synthesis                       *)
(* (generate_phrase_audios), the audio timeline builder                    *)
(* (create_audio_with_timing) and the overlay window deriver               *)
(* (create_video_from_timing).                                             *)
(*                                                                         *)
(* Times are integers in milliseconds.  The video part of the program      *)
(* works in float seconds (ms / 1000.0); the model keeps the same          *)
(* quantities multiplied by 1000.                                          *)
(* An AudioSegment is [kind, ms, fmt]: its length in whole milliseconds    *)
(* (what len() returns) and its format; its raw_data is represented by     *)
(* its byte count ms * BytesPerMs(fmt).  Rounding of len() below one       *)
(* millisecond is not modelled.                                            *)
(*                                                                         *)
(* The answer of the TTS backend for each phrase (audio in some format, or *)
(* an exception) is an input fixed in the initial state; the order in      *)
(* which the workers get their answers is left to the scheduler.           *)
(* Exceptions are modelled where the program catches them (the worker's    *)
(* `except Exception`, the title card's `except Exception`).               *)
(***************************************************************************)
EXTENDS Integers, Sequences, FiniteSets, TLC

\* ---------------------------------------------------------------- bounds
MaxPhrases == 3
MaxReps == 2

\* ------------------------------------------------------ program constants
REPETITIONS == 5
PAUSE_SECONDS == 4
INTER_PHRASE_PAUSE == 1
TITLE_SILENCE_SECONDS == 6
TTS_MAX_CONCURRENCY == 10

\* TITLE_SILENCE_SECONDS - 0.5, the title card's duration, in ms
TitleCardMs == TITLE_SILENCE_SECONDS * 1000 - 500

\* ------------------------------------------------------------ audio model
Mono24k == [frame_rate |-> 24000, channels |-> 1, sample_width |-> 2]
Stereo48k == [frame_rate |-> 48000, channels |-> 2, sample_width |-> 4]
Formats == {Mono24k, Stereo48k}

BytesPerMs(fmt) == (fmt.frame_rate \div 1000) * fmt.channels * fmt.sample_width

Audio(ms, fmt) == [kind |-> "audio", ms |-> ms, fmt |-> fmt]
Failure == [kind |-> "error"]
NoResult == [kind |-> "none"]

RawLen(segment) == segment.ms * BytesPerMs(segment.fmt)

Texts == {"Hi.", "Bye."}

\* what the TTS backend speaks for a phrase, when it answers
SpeechMs(phrase) == IF phrase = "Hi." THEN 500 ELSE 600

\* the answers generate_phrase_audio can give for one phrase
Answers(phrase) == {Failure} \cup {Audio(SpeechMs(phrase), f) : f \in Formats}

silence_like(duration_ms, reference_audio) == Audio(duration_ms, reference_audio.fmt)

normalize_audio_format_raw(audio, reference_audio) == audio

normalize_audio_format(audio, reference_audio) ==
    LET a1 == IF audio.fmt.frame_rate # reference_audio.fmt.frame_rate
              THEN [audio EXCEPT !.fmt.frame_rate = reference_audio.fmt.frame_rate]
              ELSE audio
        a2 == IF a1.fmt.channels # reference_audio.fmt.channels
              THEN [a1 EXCEPT !.fmt.channels = reference_audio.fmt.channels]
              ELSE a1
        a3 == IF a2.fmt.sample_width # reference_audio.fmt.sample_width
              THEN [a2 EXCEPT !.fmt.sample_width = reference_audio.fmt.sample_width]
              ELSE a2
    IN a3

RECURSIVE JoinedBytes(_)
JoinedBytes(segments) ==
    IF segments = <<>> THEN 0
    ELSE RawLen(Head(segments)) + JoinedBytes(Tail(segments))

concatenate_segments(segments, reference_audio) ==
    Audio(JoinedBytes(segments) \div BytesPerMs(reference_audio.fmt), reference_audio.fmt)

\* ------------------------------------------------------------------ state
VARIABLES
    phrases,          \* the input phrase list
    reps,             \* the configured repetition count
    synth,            \* synth[i]: the answer the TTS backend gives for phrase i
    task,             \* task[i]: position of worker i
    results,          \* the results slot array
    slotWrites,       \* slotWrites[i]: how often slot i was assigned
    completed,        \* counter of the as_completed loop
    pc,               \* position of the main coroutine
    reference,        \* successful_phrase_audio
    pause, short_pause, title_silence,
    segments, timing, current_ms,
    i, rep, phrase_audio,
    audioFile, total_ms,
    title_clips, counter_clips, phrase_clips, progress_clips,
    phrase_windows,   \* dict phrase_idx -> [phrase_text, start_s, end_s]
    k,                \* position of the loop over timing
    w,                \* position of the loop over sorted(phrase_windows)
    videoFile,
    output_dir,       \* the output directory: missing, or its entries
    rpc,              \* position of the batch driver's start-up
    resume_start,     \* what infer_resume_start returned
    folder_index      \* what get_output_index returned

audioVars == <<reference, pause, short_pause, title_silence, segments, timing,
               current_ms, i, rep, phrase_audio, audioFile, total_ms>>
synthVars == <<task, results, slotWrites, completed>>
inputVars == <<phrases, reps, synth>>
videoVars == <<title_clips, counter_clips, phrase_clips, progress_clips,
               phrase_windows, k, w, videoFile>>
resumeVars == <<output_dir, rpc, resume_start, folder_index>>
vars == <<inputVars, synthVars, pc, audioVars, videoVars, resumeVars>>

N == Len(phrases)

Min(S) == CHOOSE x \in S : \A y \in S : x <= y
Max(S) == CHOOSE x \in S : \A y \in S : x >= y

RECURSIVE SeqsUpTo(_, _)
SeqsUpTo(S, n) ==
    IF n = 0 THEN {<<>>}
    ELSE LET shorter == SeqsUpTo(S, n - 1)
         IN shorter \cup {Append(s, x) : s \in {t \in shorter : Len(t) = n - 1}, x \in S}

RepChoices == (1..MaxReps) \cup {REPETITIONS}

\* ------------------------------------------------------ output directory
\* A file name is a sequence of characters; a directory entry is a name and
\* whether it is a regular file.
MaxPrefix == 2
MaxFiles == 2

Digits == {"0", "1", "2", "3", "4", "5", "6", "7", "8", "9"}

DigitValue(c) ==
    CASE c = "0" -> 0 [] c = "1" -> 1 [] c = "2" -> 2 [] c = "3" -> 3
      [] c = "4" -> 4 [] c = "5" -> 5 [] c = "6" -> 6 [] c = "7" -> 7
      [] c = "8" -> 8 [] c = "9" -> 9

\* str.isdigit() on names of ASCII characters
IsDigit(str) == str # <<>> /\ \A n \in 1..Len(str) : str[n] \in Digits

\* int(prefix)
RECURSIVE ParseInt(_)
ParseInt(str) ==
    IF str = <<>> THEN 0
    ELSE 10 * ParseInt(SubSeq(str, 1, Len(str) - 1)) + DigitValue(str[Len(str)])

\* name.partition("-"): the part before the first "-" and whether there is one
Partition(name) ==
    LET dashes == {n \in 1..Len(name) : name[n] = "-"}
    IN IF dashes = {} THEN [prefix |-> name, sep |-> FALSE]
       ELSE [prefix |-> SubSeq(name, 1, Min(dashes) - 1), sep |-> TRUE]

LowerChar(c) == CASE c = "M" -> "m" [] c = "P" -> "p" [] OTHER -> c

\* str.lower()
Lower(str) == [n \in 1..Len(str) |-> LowerChar(str[n])]

\* Path.suffix: from the last "." on, empty when there is none or the name
\* starts with its only "."
Suffix(name) ==
    LET dots == {n \in 2..Len(name) : name[n] = "."}
    IN IF dots = {} THEN <<>> ELSE SubSeq(name, Max(dots), Len(name))

Mp4 == <<".", "m", "p", "4">>
Mp3 == <<".", "m", "p", "3">>

\* str.endswith(".mp4")
EndsWithMp4(name) ==
    Len(name) >= Len(Mp4) /\ SubSeq(name, Len(name) - Len(Mp4) + 1, Len(name)) = Mp4

IsAnyFile(entry) == entry.is_file

\* p.is_file() and p.suffix.lower() == ".mp4"
IsMp4File(entry) == entry.is_file /\ Lower(Suffix(entry.name)) = Mp4

MissingDir == [exists |-> FALSE, entries |-> {}]
Directory(entries) == [exists |-> TRUE, entries |-> entries]

infer_resume_start_by_count(dir) ==
    IF ~dir.exists THEN 1
    ELSE Cardinality({e \in dir.entries : IsMp4File(e)}) + 1

\* infer_resume_start(output_dir)
infer_resume_start(dir) ==
    IF ~dir.exists THEN 1
    ELSE LET mp4_files == {e \in dir.entries : IsMp4File(e)}
             indexed == {ParseInt(Partition(e.name).prefix) :
                           e \in {f \in mp4_files : /\ Partition(f.name).sep
                                                    /\ IsDigit(Partition(f.name).prefix)}}
         IN IF mp4_files = {} THEN 1
            ELSE IF indexed # {} THEN Max(indexed) + 1
            ELSE Cardinality(mp4_files) + 1

\* get_output_index(output_dir)
get_output_index(dir) ==
    IF ~dir.exists THEN 1
    ELSE Cardinality({e \in dir.entries : EndsWithMp4(e.name)}) + 1

PrefixChars == {"1", "2"}

\* the names <prefix>x.<ext> and <prefix>-x.<ext>
GeneratedNames ==
    {prefix \o dash \o <<"x">> \o ext :
        prefix \in SeqsUpTo(PrefixChars, MaxPrefix),
        dash \in {<<>>, <<"-">>},
        ext \in {Mp4, Mp3}}

\* regular files with the generated names, a video file whose prefix is not
\* a number, a video file with an upper-case extension, and a sub-directory
\* named like a video
Entries ==
    {[name |-> nm, is_file |-> TRUE] : nm \in GeneratedNames}
    \cup {[name |-> <<"a", "-", "x">> \o Mp4, is_file |-> TRUE],
          [name |-> <<"3", "-", "x", ".", "M", "P", "4">>, is_file |-> TRUE],
          [name |-> <<"9", "-", "x">> \o Mp4, is_file |-> FALSE]}

RECURSIVE SetsUpTo(_, _)
SetsUpTo(S, n) ==
    IF n = 0 THEN {{}}
    ELSE LET smaller == SetsUpTo(S, n - 1)
         IN smaller \cup {d \cup {e} : d \in smaller, e \in S}

\* the batch driver is not part of a run of generate.py alone
ResumeIdle ==
    /\ output_dir = MissingDir
    /\ rpc = "idle"
    /\ resume_start = 0
    /\ folder_index = 0

InitRest ==
    /\ task = [j \in 1..N |-> "pending"]
    /\ results = [j \in 1..N |-> NoResult]
    /\ slotWrites = [j \in 1..N |-> 0]
    /\ completed = 0
    /\ pc = "synth"
    /\ reference = NoResult
    /\ pause = NoResult
    /\ short_pause = NoResult
    /\ title_silence = NoResult
    /\ segments = <<>>
    /\ timing = <<>>
    /\ current_ms = 0
    /\ i = 0
    /\ rep = 0
    /\ phrase_audio = NoResult
    /\ audioFile = FALSE
    /\ total_ms = 0
    /\ title_clips = <<>>
    /\ counter_clips = <<>>
    /\ phrase_clips = <<>>
    /\ progress_clips = <<>>
    /\ phrase_windows = <<>>
    /\ k = 0
    /\ w = 0
    /\ videoFile = FALSE

Init ==
    /\ phrases \in SeqsUpTo(Texts, MaxPhrases)
    /\ reps \in RepChoices
    /\ synth \in {f \in [1..N -> UNION {Answers(p) : p \in Texts}] :
                    \A j \in 1..N : f[j] \in Answers(phrases[j])}
    /\ InitRest
    /\ ResumeIdle

\* more phrases than the semaphore admits at once
PoolPhrases == TTS_MAX_CONCURRENCY + 1

\* the runs of the pool specification: more phrases than the semaphore admits,
\* the backend failing for two of them (one of which had to wait), and a
\* single phrase that fails
PoolRuns == {[n |-> PoolPhrases, failed |-> {2, PoolPhrases}],
             [n |-> 1, failed |-> {1}]}

PoolInit ==
    /\ \E run \in PoolRuns :
          /\ phrases = [j \in 1..run.n |-> IF j % 2 = 1 THEN "Hi." ELSE "Bye."]
          /\ synth = [j \in 1..run.n |->
                       IF j \in run.failed THEN Failure
                       ELSE Audio(SpeechMs(phrases[j]), Mono24k)]
    /\ reps = 1
    /\ InitRest
    /\ ResumeIdle

\* ------------------------------------------------ generate_phrase_audios
InFlight == Cardinality({j \in 1..N : task[j] = "running"})

SemaphoreFreeUnbounded == TRUE

\* asyncio.Semaphore(TTS_MAX_CONCURRENCY): a slot is free
SemaphoreFree == InFlight < TTS_MAX_CONCURRENCY

\* worker i passes `async with semaphore`; tasks start in creation order and
\* the semaphore wakes its waiters first-in first-out
Acquire(j) ==
    /\ pc = "synth"
    /\ task[j] = "pending"
    /\ \A h \in 1..(j - 1) : task[h] # "pending"
    /\ SemaphoreFree
    /\ task' = [task EXCEPT ![j] = "running"]
    /\ UNCHANGED <<resumeVars, inputVars, videoVars, results, slotWrites, completed, pc, audioVars>>

\* the request of worker i ends (audio or exception); the worker returns its
\* triple and leaves the semaphore
Finish(j) ==
    /\ pc = "synth"
    /\ task[j] = "running"
    /\ task' = [task EXCEPT ![j] = "returned"]
    /\ UNCHANGED <<resumeVars, inputVars, videoVars, results, slotWrites, completed, pc, audioVars>>

ResultSlotByCompletion(idx, done) == done + 1

\* the slot assigned by `results[idx] = (audio, error)`: the worker's own index
ResultSlot(idx, done) == idx

\* one iteration of `for task in asyncio.as_completed(tasks)`
Collect(j) ==
    /\ pc = "synth"
    /\ task[j] = "returned"
    /\ results' = [results EXCEPT ![ResultSlot(j, completed)] = synth[j]]
    /\ slotWrites' = [slotWrites EXCEPT ![ResultSlot(j, completed)] = @ + 1]
    /\ completed' = completed + 1
    /\ task' = [task EXCEPT ![j] = "collected"]
    /\ UNCHANGED <<resumeVars, inputVars, videoVars, pc, audioVars>>

GatherDoneEarly == completed >= 1 \/ N = 0

\* the as_completed loop has yielded every task
GatherDone == completed = N

\* ----------------------------------------------- create_audio_with_timing
HasAudio(slot) == slot.kind = "audio"

SuccessfulIndices(rs) == {j \in 1..Len(rs) : HasAudio(rs[j])}

\* next((audio for audio, err in phrase_results if audio is not None), None)
FirstSuccessful(rs) ==
    IF SuccessfulIndices(rs) = {} THEN NoResult ELSE rs[Min(SuccessfulIndices(rs))]

FatalSetupAfterExport ==
    /\ pc = "synth"
    /\ GatherDone
    /\ FirstSuccessful(results) = NoResult
    /\ audioFile' = TRUE
    /\ pc' = "error"
    /\ UNCHANGED <<resumeVars, inputVars, videoVars, synthVars, reference, pause, short_pause,
                   title_silence, segments, timing, current_ms, i, rep,
                   phrase_audio, total_ms>>

\* raise RuntimeError("Audio generation failed for all phrases.")
FatalSetup ==
    /\ pc = "synth"
    /\ GatherDone
    /\ FirstSuccessful(results) = NoResult
    /\ pc' = "error"
    /\ UNCHANGED <<resumeVars, inputVars, videoVars, synthVars, audioVars>>

StartTimeline ==
    /\ pc = "synth"
    /\ GatherDone
    /\ FirstSuccessful(results) # NoResult
    /\ LET ref == FirstSuccessful(results)
           title == silence_like(TITLE_SILENCE_SECONDS * 1000, ref)
       IN /\ reference' = ref
          /\ pause' = silence_like(PAUSE_SECONDS * 1000, ref)
          /\ short_pause' = silence_like(INTER_PHRASE_PAUSE * 1000, ref)
          /\ title_silence' = title
          /\ segments' = <<title>>
          /\ timing' = <<>>
          /\ current_ms' = title.ms
    /\ i' = 1
    /\ pc' = "phrase"
    /\ UNCHANGED <<resumeVars, inputVars, videoVars, synthVars, rep, phrase_audio, audioFile, total_ms>>

SkipFailedWithGap ==
    /\ pc = "phrase"
    /\ i <= N
    /\ results[i].kind = "error"
    /\ segments' = Append(segments, short_pause)
    /\ current_ms' = current_ms + short_pause.ms
    /\ i' = i + 1
    /\ UNCHANGED <<resumeVars, inputVars, videoVars, synthVars, pc, reference, pause, short_pause,
                   title_silence, timing, rep, phrase_audio, audioFile, total_ms>>

\* if error: ... continue
SkipFailed ==
    /\ pc = "phrase"
    /\ i <= N
    /\ results[i].kind = "error"
    /\ i' = i + 1
    /\ UNCHANGED <<resumeVars, inputVars, videoVars, synthVars, pc, reference, pause, short_pause,
                   title_silence, segments, timing, current_ms, rep,
                   phrase_audio, audioFile, total_ms>>

BeginPhrase ==
    /\ pc = "phrase"
    /\ i <= N
    /\ results[i].kind = "audio"
    /\ phrase_audio' = normalize_audio_format(results[i], reference)
    /\ rep' = 0
    /\ pc' = "rep"
    /\ UNCHANGED <<resumeVars, inputVars, videoVars, synthVars, reference, pause, short_pause,
                   title_silence, segments, timing, current_ms, i, audioFile,
                   total_ms>>

Event(phrase, start_ms, end_ms, rep_num, phrase_idx) ==
    [phrase |-> phrase, start_ms |-> start_ms, end_ms |-> end_ms,
     rep |-> rep_num, phrase_idx |-> phrase_idx]

RepeatReindexed ==
    /\ pc = "rep"
    /\ rep < reps
    /\ LET start_ms == current_ms
           end_ms == current_ms + phrase_audio.ms
           position == Cardinality({j \in 1..i : results[j].kind = "audio"})
       IN /\ segments' = segments \o <<phrase_audio, pause>>
          /\ timing' = Append(timing, Event(phrases[i], start_ms, end_ms, rep + 1, position))
          /\ current_ms' = end_ms + pause.ms
    /\ rep' = rep + 1
    /\ UNCHANGED <<resumeVars, inputVars, videoVars, synthVars, pc, reference, pause, short_pause,
                   title_silence, i, phrase_audio, audioFile, total_ms>>

RepeatPauseBetween ==
    /\ pc = "rep"
    /\ rep < reps
    /\ LET start_ms == current_ms
           end_ms == current_ms + phrase_audio.ms
           gap == IF rep + 1 < reps THEN <<pause>> ELSE <<>>
       IN /\ segments' = segments \o <<phrase_audio>> \o gap
          /\ timing' = Append(timing, Event(phrases[i], start_ms, end_ms, rep + 1, i))
          /\ current_ms' = end_ms + (IF rep + 1 < reps THEN pause.ms ELSE 0)
    /\ rep' = rep + 1
    /\ UNCHANGED <<resumeVars, inputVars, videoVars, synthVars, pc, reference, pause, short_pause,
                   title_silence, i, phrase_audio, audioFile, total_ms>>

\* one iteration of `for rep in range(REPETITIONS)`
Repeat ==
    /\ pc = "rep"
    /\ rep < reps
    /\ LET start_ms == current_ms
           end_ms == current_ms + phrase_audio.ms
       IN /\ segments' = segments \o <<phrase_audio, pause>>
          /\ timing' = Append(timing, Event(phrases[i], start_ms, end_ms, rep + 1, i))
          /\ current_ms' = end_ms + pause.ms
    /\ rep' = rep + 1
    /\ UNCHANGED <<resumeVars, inputVars, videoVars, synthVars, pc, reference, pause, short_pause,
                   title_silence, i, phrase_audio, audioFile, total_ms>>

\* segments.append(short_pause) after the repetitions of one phrase
EndPhrase ==
    /\ pc = "rep"
    /\ rep = reps
    /\ segments' = Append(segments, short_pause)
    /\ current_ms' = current_ms + short_pause.ms
    /\ i' = i + 1
    /\ pc' = "phrase"
    /\ UNCHANGED <<resumeVars, inputVars, videoVars, synthVars, reference, pause, short_pause,
                   title_silence, timing, rep, phrase_audio, audioFile, total_ms>>

\* combined = concatenate_segments(...); combined.export(...); return
ExportAudio ==
    /\ pc = "phrase"
    /\ i > N
    /\ audioFile' = TRUE
    /\ total_ms' = concatenate_segments(segments, reference).ms
    /\ pc' = "title"
    /\ UNCHANGED <<resumeVars, inputVars, videoVars, synthVars, reference, pause, short_pause,
                   title_silence, segments, timing, current_ms, i, rep,
                   phrase_audio>>

\* ----------------------------------------------- create_video_from_timing
Clip(content, start_s, duration_s) ==
    [content |-> content, start |-> start_s, duration |-> duration_s]

\* the title TextClip is built: one clip from 0 lasting TITLE_SILENCE_SECONDS - 0.5
TitleCard ==
    /\ pc = "title"
    /\ title_clips' = <<Clip("title", 0, TitleCardMs)>>
    /\ k' = 1
    /\ pc' = "events"
    /\ UNCHANGED <<resumeVars, inputVars, synthVars, audioVars, counter_clips, phrase_clips,
                   progress_clips, phrase_windows, w, videoFile>>

\* building the title TextClip raises: `except Exception` skips the title card
TitleCardSkipped ==
    /\ pc = "title"
    /\ title_clips' = <<>>
    /\ k' = 1
    /\ pc' = "events"
    /\ UNCHANGED <<resumeVars, inputVars, synthVars, audioVars, counter_clips, phrase_clips,
                   progress_clips, phrase_windows, w, videoFile>>

FoldWindowKeepFirstEnd(windows, phrase_idx, phrase_text, start_s, end_s) ==
    IF phrase_idx \notin DOMAIN windows
    THEN (phrase_idx :> [phrase_text |-> phrase_text, start_s |-> start_s, end_s |-> end_s])
            @@ windows
    ELSE windows

\* window = phrase_windows.get(phrase_idx); first event creates the window,
\* later events overwrite its end
FoldWindow(windows, phrase_idx, phrase_text, start_s, end_s) ==
    IF phrase_idx \notin DOMAIN windows
    THEN (phrase_idx :> [phrase_text |-> phrase_text, start_s |-> start_s, end_s |-> end_s])
            @@ windows
    ELSE [windows EXCEPT ![phrase_idx].end_s = end_s]

CounterEndNoPause(end_ms) == end_ms

CounterEndThroughShortPause(end_ms) ==
    end_ms + PAUSE_SECONDS * 1000 + INTER_PHRASE_PAUSE * 1000

\* end_s = (end_ms / 1000.0) + PAUSE_SECONDS
CounterEnd(end_ms) == end_ms + PAUSE_SECONDS * 1000

\* one iteration of `for phrase_text, start_ms, end_ms, rep_num, phrase_idx in timing`
CounterEvent ==
    /\ pc = "events"
    /\ k <= Len(timing)
    /\ LET ev == timing[k]
           start_s == ev.start_ms
           end_s == CounterEnd(ev.end_ms)
       IN /\ phrase_windows' = FoldWindow(phrase_windows, ev.phrase_idx, ev.phrase,
                                          start_s, end_s)
          /\ counter_clips' = Append(counter_clips, Clip(ev.rep, start_s, end_s - start_s))
    /\ k' = k + 1
    /\ UNCHANGED <<resumeVars, inputVars, synthVars, pc, audioVars, title_clips, phrase_clips,
                   progress_clips, w, videoFile>>

EventsDone ==
    /\ pc = "events"
    /\ k > Len(timing)
    /\ w' = 1
    /\ pc' = "subtitles"
    /\ UNCHANGED <<resumeVars, inputVars, synthVars, audioVars, title_clips, counter_clips,
                   phrase_clips, progress_clips, phrase_windows, k, videoFile>>

RECURSIVE SortedDesc(_)
SortedDesc(S) ==
    IF S = {} THEN <<>> ELSE <<Max(S)>> \o SortedDesc(S \ {Max(S)})

\* sorted(phrase_windows): the keys in increasing order
RECURSIVE Sorted(_)
Sorted(S) ==
    IF S = {} THEN <<>> ELSE <<Min(S)>> \o Sorted(S \ {Min(S)})

\* one iteration of `for idx, phrase_idx in enumerate(sorted(phrase_windows))`
SubtitleOverlay ==
    /\ pc = "subtitles"
    /\ w <= Cardinality(DOMAIN phrase_windows)
    /\ LET phrase_idx == Sorted(DOMAIN phrase_windows)[w]
           window == phrase_windows[phrase_idx]
           duration_s == window.end_s - window.start_s
       IN /\ phrase_clips' = Append(phrase_clips,
                                    Clip(window.phrase_text, window.start_s, duration_s))
          /\ progress_clips' = Append(progress_clips,
                                      Clip(phrase_idx, window.start_s, duration_s))
    /\ w' = w + 1
    /\ UNCHANGED <<resumeVars, inputVars, synthVars, pc, audioVars, title_clips, counter_clips,
                   phrase_windows, k, videoFile>>

\* CompositeVideoClip + write_videofile
Render ==
    /\ pc = "subtitles"
    /\ w > Cardinality(DOMAIN phrase_windows)
    /\ videoFile' = TRUE
    /\ pc' = "done"
    /\ UNCHANGED <<resumeVars, inputVars, synthVars, audioVars, title_clips, counter_clips,
                   phrase_clips, progress_clips, phrase_windows, k, w>>

Next ==
    \/ \E j \in 1..N : Acquire(j)
    \/ \E j \in 1..N : Finish(j)
    \/ \E j \in 1..N : Collect(j)
    \/ FatalSetup
    \/ StartTimeline
    \/ SkipFailed
    \/ BeginPhrase
    \/ Repeat
    \/ EndPhrase
    \/ ExportAudio
    \/ TitleCard
    \/ TitleCardSkipped
    \/ CounterEvent
    \/ EventsDone
    \/ SubtitleOverlay
    \/ Render

Spec == Init /\ [][Next]_vars

\* ------------------------------------------- batch driver: where to resume
ResumeInit ==
    /\ phrases = <<>>
    /\ reps = REPETITIONS
    /\ synth = <<>>
    /\ InitRest
    /\ output_dir \in {MissingDir} \cup {Directory(d) : d \in SetsUpTo(Entries, MaxFiles)}
    /\ rpc = "start"
    /\ resume_start = 0
    /\ folder_index = 0

\* start = infer_resume_start(output_dir)
InferResume ==
    /\ rpc = "start"
    /\ resume_start' = infer_resume_start(output_dir)
    /\ rpc' = "inferred"
    /\ UNCHANGED <<inputVars, synthVars, pc, audioVars, videoVars, output_dir, folder_index>>

\* folder_index = get_output_index(output_dir), in the run the driver starts
OutputIndex ==
    /\ rpc = "inferred"
    /\ folder_index' = get_output_index(output_dir)
    /\ rpc' = "indexed"
    /\ UNCHANGED <<inputVars, synthVars, pc, audioVars, videoVars, output_dir, resume_start>>

NextResume == InferResume \/ OutputIndex

SpecResume == ResumeInit /\ [][NextResume]_vars

\* the event loop runs every ready coroutine and every request is answered
SpecPool == PoolInit /\ [][Next]_vars /\ WF_vars(Next)

\* ======================================================================
\* Reference results
\* ======================================================================
TitleMs == TITLE_SILENCE_SECONDS * 1000
PauseMs == PAUSE_SECONDS * 1000
ShortPauseMs == INTER_PHRASE_PAUSE * 1000

\* the main coroutine has left create_audio_with_timing with a result
AudioReturned == pc \in {"title", "events", "subtitles", "done"}

Succeeded == SuccessfulIndices(synth)

RECURSIVE SumOver(_, _)
SumOver(S, f) ==
    IF S = {} THEN 0
    ELSE LET x == CHOOSE y \in S : TRUE IN f[x] + SumOver(S \ {x}, f)

\* lines 171-189 as a function of the phrase list and the per-phrase outcomes:
\* the ledger and the cursor after the phrases from position j on
RECURSIVE Timeline(_, _, _, _, _)
Timeline(ps, rs, j, cursor, R) ==
    IF j > Len(ps) THEN [timing |-> <<>>, current_ms |-> cursor]
    ELSE IF rs[j].kind # "audio" THEN Timeline(ps, rs, j + 1, cursor, R)
    ELSE LET ms == rs[j].ms
             evs == [r \in 1..R |->
                       Event(ps[j], cursor + (r - 1) * (ms + PauseMs),
                             cursor + (r - 1) * (ms + PauseMs) + ms, r, j)]
             rest == Timeline(ps, rs, j + 1,
                              cursor + R * (ms + PauseMs) + ShortPauseMs, R)
         IN [timing |-> evs \o rest.timing, current_ms |-> rest.current_ms]

Offsets(ledger) == [n \in 1..Len(ledger) |-> <<ledger[n].start_ms, ledger[n].end_ms>>]

\* the input list with the failed phrases removed
Survivors == Sorted(Succeeded)
SurvivingPhrases == [n \in 1..Len(Survivors) |-> phrases[Survivors[n]]]
SurvivingResults == [n \in 1..Len(Survivors) |-> synth[Survivors[n]]]

\* ======================================================================
\* Claims
\* ======================================================================

\* C1 (duration conservation): once create_audio_with_timing has returned,
\* the returned total duration equals the title intro plus, for every phrase
\* the backend synthesized, R * its duration + R * full pause + short pause;
\* failed phrases add nothing.
T_C1_DurationConservation ==
    AudioReturned =>
        total_ms = TitleMs
                   + SumOver(Succeeded,
                             [j \in Succeeded |->
                                reps * synth[j].ms + reps * PauseMs + ShortPauseMs])

W_C1_DurationConservation ==
    /\ pc = "done"
    /\ N = 3
    /\ Cardinality(Succeeded) = 2
    /\ \E a, b \in Succeeded : synth[a].fmt # synth[b].fmt

\* C2 (failure isolation): with at least one success the run is not aborted;
\* the ledger has events only for synthesized phrases; the offsets of the
\* events and the total duration are those of the builder run on the list
\* without the failed phrases; the step over a failed phrase changes neither
\* the segments, the ledger nor the cursor.
T_C2_FailureIsolation ==
    /\ [](Succeeded # {} => pc # "error")
    /\ [](\A n \in 1..Len(timing) : timing[n].phrase_idx \in Succeeded)
    /\ [](AudioReturned =>
            LET clean == Timeline(SurvivingPhrases, SurvivingResults, 1, TitleMs, reps)
            IN /\ Offsets(timing) = Offsets(clean.timing)
               /\ total_ms = clean.current_ms)
    /\ [][(pc = "phrase" /\ i <= N /\ synth[i] = Failure)
            => (segments' = segments /\ timing' = timing /\ current_ms' = current_ms)]_vars

W_C2_FailureIsolation ==
    /\ pc = "done"
    /\ N = 3
    /\ synth[2] = Failure
    /\ Succeeded = {1, 3}

\* C3 (order preservation under concurrency): whatever the order in which
\* the workers finish and are collected, slot i of the results holds the
\* outcome of phrase i when the gathering is over, and the ledger and the
\* total duration are those of the phrases taken in submission order.
T_C3_OrderPreservation ==
    /\ (pc # "synth" => results = synth)
    /\ (AudioReturned =>
            LET inOrder == Timeline(phrases, synth, 1, TitleMs, reps)
            IN /\ timing = inOrder.timing
               /\ total_ms = inOrder.current_ms)

\* the last worker finished and was collected first, while the first one is
\* still waiting for its answer: slot N is filled, slot 1 is not
W_C3_OrderPreservation ==
    /\ pc = "synth"
    /\ N = 3
    /\ completed = 1
    /\ task[N] = "collected"
    /\ task[1] = "running"
    /\ synth[N] # synth[1]
    /\ results[N] = synth[N]
    /\ results[1] = NoResult

\* C4 (monotonic offsets): in the ledger, at every moment of the build, the
\* first event starts at the title-intro length and each later event starts
\* at the previous event's end plus the full pause (same phrase) or the full
\* pause plus the short pause (next synthesized phrase).
T_C4_MonotonicOffsets ==
    /\ (timing # <<>> => timing[1].start_ms = TitleMs)
    /\ \A n \in 1..(Len(timing) - 1) :
          /\ timing[n + 1].start_ms >= timing[n].end_ms
          /\ timing[n + 1].start_ms =
                timing[n].end_ms
                + (IF timing[n + 1].phrase_idx = timing[n].phrase_idx
                   THEN PauseMs ELSE PauseMs + ShortPauseMs)

W_C4_MonotonicOffsets ==
    /\ pc = "done"
    /\ reps >= 2
    /\ synth[1] = Failure
    /\ \E n \in 1..(Len(timing) - 1) : timing[n + 1].phrase_idx # timing[n].phrase_idx
    /\ \E n \in 1..(Len(timing) - 1) : timing[n + 1].phrase_idx = timing[n].phrase_idx

\* the phrases, repetition count and outcomes of the spec's concrete scenario
Scenario ==
    /\ phrases = <<"Hi.", "Bye.">>
    /\ reps = 2
    /\ Succeeded = {1, 2}

\* C5 as stated: the scenario's ledger ends with Bye rep2 [21200,21800) and
\* the total duration is 27800 ms.
X_C5_ScenarioAsStated ==
    (Scenario /\ AudioReturned) =>
        /\ timing = << Event("Hi.", 6000, 6500, 1, 1), Event("Hi.", 10500, 11000, 2, 1),
                       Event("Bye.", 16000, 16600, 1, 2), Event("Bye.", 21200, 21800, 2, 2) >>
        /\ total_ms = 27800

\* C5 (concrete scenario, amended): the ledger is Hi rep1 [6000,6500),
\* Hi rep2 [10500,11000), Bye rep1 [16000,16600), Bye rep2 [20600,21200) and
\* the total duration is 26200 ms.
T_C5_Scenario ==
    (Scenario /\ AudioReturned) =>
        /\ timing = << Event("Hi.", 6000, 6500, 1, 1), Event("Hi.", 10500, 11000, 2, 1),
                       Event("Bye.", 16000, 16600, 1, 2), Event("Bye.", 20600, 21200, 2, 2) >>
        /\ total_ms = 26200

W_C5_Scenario ==
    /\ Scenario
    /\ pc = "done"
    /\ synth[1].ms = 500
    /\ synth[2].ms = 600

EventsOf(phrase_idx, upto) ==
    {n \in 1..upto : timing[n].phrase_idx = phrase_idx}

\* C6 (window containment): after the fold over the first k-1 ledger events,
\* there is one window per phrase index seen; its start is the minimum start
\* of that phrase's events and its end is their maximum end plus the trailing
\* pause, so the window contains every one of them.
T_C6_WindowContainment ==
    pc \in {"events", "subtitles", "done"} =>
        LET seen == k - 1 IN
        /\ DOMAIN phrase_windows = {timing[n].phrase_idx : n \in 1..seen}
        /\ \A p \in DOMAIN phrase_windows :
              LET evs == EventsOf(p, seen)
                  window == phrase_windows[p]
              IN /\ window.start_s = Min({timing[n].start_ms : n \in evs})
                 /\ window.end_s = Max({timing[n].end_ms : n \in evs}) + PauseMs
                 /\ \A n \in evs : /\ window.start_s <= timing[n].start_ms
                                   /\ window.end_s >= timing[n].end_ms + PauseMs

W_C6_WindowContainment ==
    /\ pc = "done"
    /\ reps >= 2
    /\ Cardinality(DOMAIN phrase_windows) >= 2
    /\ Cardinality(Succeeded) < N

\* C7 (fatal setup error): when no phrase was synthesized (all failed, or the
\* list is empty) the coroutine, once past the gathering, is in the error
\* state; in the error state no silence, segment or ledger was built, no
\* duration was returned and neither the audio nor the video file was written.
T_C7_FatalSetup ==
    /\ ((pc # "synth" /\ Succeeded = {}) => pc = "error")
    /\ (pc = "error" =>
            /\ Succeeded = {}
            /\ reference = NoResult /\ pause = NoResult
            /\ short_pause = NoResult /\ title_silence = NoResult
            /\ segments = <<>> /\ timing = <<>>
            /\ total_ms = 0
            /\ ~audioFile /\ ~videoFile)

W_C7_FatalSetup ==
    /\ pc = "error"
    /\ N >= 2
    /\ \A j \in 1..N : synth[j] = Failure /\ task[j] = "collected"

DistinctIndices == {timing[n].phrase_idx : n \in 1..Len(timing)}

\* the overlays other than the title card, as C8 states them
OverlaysPerWindowAndEvent ==
    /\ Len(phrase_clips) = Cardinality(DistinctIndices)
    /\ Len(progress_clips) = Cardinality(DistinctIndices)
    /\ \A n \in 1..Len(progress_clips) :
          LET p == progress_clips[n].content
              window == phrase_windows[p]
          IN /\ p \in DistinctIndices
             /\ (n > 1 => progress_clips[n - 1].content < p)
             /\ progress_clips[n].start = window.start_s
             /\ progress_clips[n].duration = window.end_s - window.start_s
             /\ phrase_clips[n] = Clip(phrases[p], window.start_s,
                                       window.end_s - window.start_s)
    /\ Len(counter_clips) = Len(timing)
    /\ \A n \in 1..Len(timing) :
          /\ counter_clips[n].start = timing[n].start_ms
          /\ counter_clips[n].start + counter_clips[n].duration
                = timing[n].end_ms + PauseMs

T_C9_Barrier ==
    /\ \A j \in 1..N : slotWrites[j] <= 1
    /\ (pc = "synth" =>
            /\ reference = NoResult
            /\ segments = <<>> /\ timing = <<>>
            /\ i = 0)
    /\ (pc # "synth" =>
            \A j \in 1..N : /\ task[j] = "collected"
                            /\ results[j] # NoResult
                            /\ results[j] = synth[j]
                            /\ slotWrites[j] = 1)

W_C9_Barrier ==
    /\ pc = "phrase"
    /\ N = 3
    /\ i = 1
    /\ synth[2] = Failure
    /\ timing = <<>>

\* C10 (bounded concurrency): never more than TTS_MAX_CONCURRENCY requests
\* are in flight; a worker returns only from inside the guarded section; and
\* every worker eventually has returned and been collected.
T_C10_BoundedPool ==
    /\ [](InFlight <= TTS_MAX_CONCURRENCY)
    /\ [][\A j \in 1..N :
            (task'[j] = "returned" /\ task[j] # "returned") => task[j] = "running"]_vars
    /\ <>(\A j \in 1..N : task[j] = "collected")

\* the pool is full again after a failed request left it and the worker that
\* had to wait entered
W_C10_BoundedPool ==
    /\ N > TTS_MAX_CONCURRENCY
    /\ InFlight = TTS_MAX_CONCURRENCY
    /\ task[N] = "running"
    /\ task[2] = "collected"
    /\ synth[2] = Failure

\* C11 (ledger shape): the returned ledger holds, for the synthesized phrases
\* in input order, R consecutive events each, numbered 1..R; an event's
\* phraseIndex is the 1-based position of its phrase in the input list (not
\* its position among the synthesized ones), its phraseText is the phrase at
\* that position, and its end is its start plus that phrase's audio duration;
\* a failed phrase has no event.
T_C11_LedgerShape ==
    AudioReturned =>
        /\ Len(timing) = reps * Cardinality(Succeeded)
        /\ \A j \in 1..N :
              Cardinality(EventsOf(j, Len(timing)))
                 = (IF synth[j].kind = "audio" THEN reps ELSE 0)
        /\ \A n \in 1..Len(timing) :
              LET ev == timing[n]
                  nth == ((n - 1) \div reps) + 1
              IN /\ ev.phrase_idx \in Succeeded
                 /\ ev.phrase_idx = Survivors[nth]
                 /\ ev.rep = ((n - 1) % reps) + 1
                 /\ ev.phrase = phrases[ev.phrase_idx]
                 /\ ev.end_ms = ev.start_ms + synth[ev.phrase_idx].ms

\* a failed phrase precedes a synthesized one with a different text
W_C11_LedgerShape ==
    /\ pc = "done"
    /\ N = 3
    /\ reps >= 2
    /\ synth[1] = Failure
    /\ Succeeded = {2, 3}
    /\ phrases[1] # phrases[2]

Overlap(a, b) == a.start < b.start + b.duration /\ b.start < a.start + a.duration

PairwiseDisjoint(clips) ==
    \A m, n \in 1..Len(clips) : m # n => ~Overlap(clips[m], clips[n])

\* C13 (no overlapping overlays of one kind): in the finished derivation the
\* subtitle overlays are pairwise disjoint in time, so are the progress
\* overlays and the counter overlays; each counter overlay ends no later than
\* the next event starts; the title card ends before the first event starts.
T_C13_NoOverlap ==
    pc = "done" =>
        /\ PairwiseDisjoint(phrase_clips)
        /\ PairwiseDisjoint(progress_clips)
        /\ PairwiseDisjoint(counter_clips)
        /\ \A n \in 1..(Len(counter_clips) - 1) :
              counter_clips[n].start + counter_clips[n].duration <= timing[n + 1].start_ms
        /\ \A p, q \in DOMAIN phrase_windows :
              p < q => phrase_windows[p].end_s <= phrase_windows[q].start_s
        /\ \A n \in 1..Len(title_clips) :
              title_clips[n].start + title_clips[n].duration < timing[1].start_ms

W_C13_NoOverlap ==
    /\ pc = "done"
    /\ reps >= 2
    /\ Len(title_clips) = 1
    /\ Len(phrase_clips) >= 2
    /\ Cardinality(Succeeded) < N

\* the name has the form <index>-<rest>, the index in decimal digits
HasIndex(name) == Partition(name).sep /\ IsDigit(Partition(name).prefix)
IndexOf(name) == ParseInt(Partition(name).prefix)

Inferred == rpc \in {"inferred", "indexed"}

\* C12 as stated: max(index)+1 over the files named <index>-<name>.<ext>,
\* and 1 when there is none.
X_C12_ResumeAsStated ==
    Inferred =>
        LET indices == {IndexOf(e.name) :
                          e \in {f \in output_dir.entries : f.is_file /\ HasIndex(f.name)}}
        IN resume_start = (IF indices = {} THEN 1 ELSE Max(indices) + 1)

\* a regular file whose name ends in .mp4, in any letter case
IsVideo(e) ==
    /\ e.is_file
    /\ Len(e.name) > 4
    /\ Lower(SubSeq(e.name, Len(e.name) - 3, Len(e.name))) = Mp4

\* C12 (resume inference, amended): only regular .mp4 files count.  The
\* result is max(index)+1 over those named <index>-<rest>; when there are
\* .mp4 files but none carries an index it is their number plus one; it is 1
\* when the directory is missing or holds no .mp4 file.
T_C12_ResumeInference ==
    Inferred =>
        LET videos == {e \in output_dir.entries : IsVideo(e)}
            indices == {IndexOf(e.name) : e \in {f \in videos : HasIndex(f.name)}}
        IN /\ (~output_dir.exists \/ videos = {}) => resume_start = 1
           /\ indices # {} =>
                 /\ resume_start - 1 \in indices
                 /\ \A v \in indices : v < resume_start
           /\ (videos # {} /\ indices = {}) => resume_start = Cardinality(videos) + 1

\* an indexed audio file with a larger index lies next to an indexed video
W_C12_ResumeInference ==
    /\ Inferred
    /\ \E e, f \in output_dir.entries :
          /\ IsVideo(e) /\ HasIndex(e.name)
          /\ ~IsVideo(f) /\ f.is_file /\ HasIndex(f.name)
          /\ IndexOf(f.name) > IndexOf(e.name)
          /\ resume_start = IndexOf(e.name) + 1

====
